---- MODULE Spec2Model ----
(***************************************************************************)
(* Model of package retry (src/retry.go): Try, which runs a function and   *)
(* recovers from a panic, and Retry, which runs a function through Try up  *)
(* to numberOfRetries times (forever when negative), calling onError after *)
(* each failed attempt and sleeping between attempts.                      *)
(*                                                                         *)
(* One behaviour of the model is one call of Retry.  The arguments of the  *)
(* call, the behaviour of the caller's function f and callback onError,    *)
(* and the build's treatment of panic(nil) are chosen in Init.  Durations  *)
(* are counted in milliseconds.                                            *)
(***************************************************************************)
EXTENDS Integers, Sequences, FiniteSets, TLC

\* ---------------------------------------------------------------- bounds
\* largest numberOfRetries argument tried
MaxAttempts == 3
\* cap on the invocations of f when numberOfRetries < 0 (unbounded mode)
MaxCalls == 3

\* ---------------------------------------------------------------- values
\* time.Second * 5, in milliseconds
DefaultPeriod == 5000

\* the payload slot of a value that is not a recovered panic
NoPayload == [t |-> "none", s |-> ""]
\* panic(nil)
NilPayload == [t |-> "nil", s |-> ""]
\* *runtime.PanicNilError: what recover() returns for panic(nil) since Go 1.21
PanicNilError == [t |-> "PanicNilError", s |-> ""]
\* the values f panics with: panic("X"), panic(errors.Errorf("FAILED")), panic(nil)
Payloads == {[t |-> "string", s |-> "X"], [t |-> "error", s |-> "FAILED"], NilPayload}

\* the nil error
NilErr == [kind |-> "nil", msg |-> "", e |-> NoPayload]
\* an error f returns: errors.Errorf(m)
ErrorValue(m) == [kind |-> "error", msg |-> m, e |-> NoPayload]
\* &recovered{e: e}
Recovered(e) == [kind |-> "recovered", msg |-> "", e |-> e]

\* ErrorText passing on the text of a recovered payload
ErrorText_OfPayload(err) ==
    IF err.kind = "recovered" THEN err.e.s ELSE err.msg

\* (r *recovered) Error(), and Error() of an ordinary error
ErrorText(err) ==
    IF err.kind = "recovered"
    THEN "RECOVERED, UNKNOWN ERROR; CALL CausedBy() interface{}"
    ELSE err.msg

\* (r *recovered) CausedBy()
CausedBy(err) == err.e

\* the errors f returns in the tests and examples
ReturnedErrors == {ErrorValue("DUMMY"), ErrorValue("FAILED")}

\* one invocation of f ends by returning ret or by panicking with pv;
\* worked tells whether f got past its cancellation check
Return(r, w) == [how |-> "return", ret |-> r, pv |-> NoPayload, worked |-> w]
Panic(v, w)  == [how |-> "panic", ret |-> NilErr, pv |-> v, worked |-> w]
NoOutcome    == [how |-> "none", ret |-> NilErr, pv |-> NoPayload, worked |-> FALSE]

\* the ways an invocation of f can fail: a returned error or a panic
FailOutcomes(w) ==
    {Return(r, w) : r \in ReturnedErrors} \cup {Panic(v, w) : v \in Payloads}

\* the behaviours of the caller's f:
\*   "any"       an arbitrary function: each invocation returns nil, returns
\*               an error or panics
\*   "alwaysNil" the function of TestNumberOfRetriesNoError: returns nil
\*   "ctxAware"  the function of TestOnError3: returns nil when the context
\*               is cancelled, otherwise does its work and fails
FKinds == {"any", "alwaysNil", "ctxAware"}

FOutcomes(kind, isCancelled) ==
    CASE kind = "any"       -> {Return(NilErr, TRUE)} \cup FailOutcomes(TRUE)
      [] kind = "alwaysNil" -> {Return(NilErr, TRUE)}
      [] kind = "ctxAware"  -> IF isCancelled
                               THEN {Return(NilErr, FALSE)}
                               ELSE FailOutcomes(TRUE)

\* the behaviours of the caller's onError:
\*   "nil"    no callback is passed
\*   "count"  the callback records the call and returns
\*   "cancel" the callback of TestOnError3: cancels the context
\*   "panic"  the callback panics
OnErrorKinds == {"nil", "count", "cancel", "panic"}

\* the variadic period arguments tried (milliseconds)
Periods == {<< >>, <<0>>, <<-1>>, <<50>>, <<50, 70>>, <<0, 70>>}

\* ---------------------------------------------------------------- Try
\* recover() inside Try's deferred function: the panic value; for panic(nil)
\* it is nil in builds before Go 1.21 or with GODEBUG=panicnil=1, and a
\* *runtime.PanicNilError otherwise
Recover(pv, nilPanicIsNil) ==
    IF pv = NilPayload
    THEN IF nilPanicIsNil THEN NilPayload ELSE PanicNilError
    ELSE pv

\* Try wrapping every result of f, returned errors included, in a recovered
Try_WrapsReturn(o, nilPanicIsNil) ==
    IF o.how = "panic"
    THEN LET e == Recover(o.pv, nilPanicIsNil)
         IN  IF e # NilPayload THEN Recovered(e) ELSE NilErr
    ELSE IF o.ret # NilErr THEN Recovered([t |-> "error", s |-> o.ret.msg]) ELSE NilErr

\* Try(f) for an invocation of f that ended with outcome o
Try(o, nilPanicIsNil) ==
    IF o.how = "panic"
    THEN LET e == Recover(o.pv, nilPanicIsNil)
         IN  IF e # NilPayload THEN Recovered(e) ELSE NilErr
    ELSE o.ret

\* ---------------------------------------------------------------- Retry
\* PeriodOf reading the last period argument instead of the first
PeriodOf_Last(per) ==
    IF Len(per) > 0 /\ per[Len(per)] > 0 THEN per[Len(per)] ELSE DefaultPeriod

\* p := time.Second * 5; if len(period) > 0 && period[0] > 0 { p = period[0] }
PeriodOf(per) ==
    IF Len(per) > 0 /\ per[1] > 0 THEN per[1] ELSE DefaultPeriod

\* LoopCond stopping one attempt early
LoopCond_OffByOne(n) == n > 1

\* LoopCond treating zero as an attempt to make
LoopCond_ZeroRuns(n) == n >= 0

\* for numberOfRetries != 0
LoopCond(n) == n # 0

\* Decrement without the sign test: a negative counter is counted down too
Decrement_Always(n) == n - 1

\* Decrement never counting down
Decrement_Never(n) == n

\* if numberOfRetries > 0 { numberOfRetries-- }
Decrement(n) == IF n > 0 THEN n - 1 ELSE n

\* IsFailure without the nil test: a success is handled as a failure
IsFailure_Always(e) == TRUE

\* if err := Try(f); err != nil
IsFailure(e) == e # NilErr

\* NeedSleep without the test: Retry sleeps after every failed attempt
NeedSleep_Always(n) == TRUE

\* if numberOfRetries != 0 { time.Sleep(p) }
NeedSleep(n) == n # 0

VARIABLES
    pc,              \* position in Retry: entry, loop, try, onerr, sleep, done, panicked
    attempts,        \* the numberOfRetries argument as passed
    numberOfRetries, \* the parameter, counted down by the loop
    period,          \* the variadic period arguments
    p,               \* the sleep duration
    fKind,           \* behaviour of f
    onErrorKind,     \* behaviour of onError
    nilPanicIsNil,   \* build: recover() returns nil for panic(nil)
    err,             \* result of the last Try(f)
    cancelled,       \* the context of TestOnError3 is cancelled
    trace            \* the invocations of f, onError and time.Sleep so far

vars == <<pc, attempts, numberOfRetries, period, p, fKind, onErrorKind,
          nilPanicIsNil, err, cancelled, trace>>

args == <<attempts, period, fKind, onErrorKind, nilPanicIsNil>>

CallEvent(o, e)  == [ev |-> "call", out |-> o, err |-> e, d |-> 0]
OnErrorEvent(e)  == [ev |-> "onError", out |-> NoOutcome, err |-> e, d |-> 0]
SleepEvent(d)    == [ev |-> "sleep", out |-> NoOutcome, err |-> NilErr, d |-> d]

IsCall(x)    == x.ev = "call"
IsOnError(x) == x.ev = "onError"
IsSleep(x)   == x.ev = "sleep"

Calls    == SelectSeq(trace, IsCall)
OnErrors == SelectSeq(trace, IsOnError)
Sleeps   == SelectSeq(trace, IsSleep)

Init ==
    /\ pc = "entry"
    /\ attempts \in -2 .. MaxAttempts
    /\ numberOfRetries = attempts
    /\ period \in Periods
    /\ p = 0
    /\ fKind \in FKinds
    /\ onErrorKind \in OnErrorKinds
    /\ nilPanicIsNil \in BOOLEAN
    /\ err = NilErr
    /\ cancelled = FALSE
    /\ trace = << >>

\* lines 37-40: the sleep duration is fixed
Enter ==
    /\ pc = "entry"
    /\ p' = PeriodOf(period)
    /\ pc' = "loop"
    /\ UNCHANGED <<args, numberOfRetries, err, cancelled, trace>>

\* lines 41-44: the loop condition holds; the counter is decremented
LoopEnter ==
    /\ pc = "loop"
    /\ LoopCond(numberOfRetries)
    /\ numberOfRetries < 0 => Len(Calls) < MaxCalls
    /\ numberOfRetries' = Decrement(numberOfRetries)
    /\ pc' = "try"
    /\ UNCHANGED <<args, p, err, cancelled, trace>>

\* line 41: the loop condition fails; Retry returns
LoopExit ==
    /\ pc = "loop"
    /\ ~LoopCond(numberOfRetries)
    /\ pc' = "done"
    /\ UNCHANGED <<args, numberOfRetries, p, err, cancelled, trace>>

\* line 45 (and 52-54): err := Try(f); on nil the loop breaks
Attempt ==
    /\ pc = "try"
    /\ \E o \in FOutcomes(fKind, cancelled) :
          /\ err' = Try(o, nilPanicIsNil)
          /\ trace' = Append(trace, CallEvent(o, err'))
    /\ pc' = IF IsFailure(err') THEN "onerr" ELSE "done"
    /\ UNCHANGED <<args, numberOfRetries, p, cancelled>>

\* HandleError sleeping before it calls onError
HandleError_SleepFirst ==
    /\ pc = "onerr"
    /\ trace' = LET slept == IF NeedSleep(numberOfRetries)
                             THEN Append(trace, SleepEvent(p)) ELSE trace
                IN  IF onErrorKind # "nil" THEN Append(slept, OnErrorEvent(err)) ELSE slept
    /\ cancelled' = IF onErrorKind = "cancel" THEN TRUE ELSE cancelled
    /\ pc' = IF onErrorKind = "panic" THEN "panicked" ELSE "loop"
    /\ UNCHANGED <<args, numberOfRetries, p, err>>

\* HandleError recovering from a panic of onError and carrying on
HandleError_RecoversCallback ==
    /\ pc = "onerr"
    /\ trace' = IF onErrorKind # "nil" THEN Append(trace, OnErrorEvent(err)) ELSE trace
    /\ cancelled' = IF onErrorKind = "cancel" THEN TRUE ELSE cancelled
    /\ pc' = IF NeedSleep(numberOfRetries) THEN "sleep" ELSE "loop"
    /\ UNCHANGED <<args, numberOfRetries, p, err>>

\* lines 46-49: onError(err) when a callback is set, then the sleep test
HandleError ==
    /\ pc = "onerr"
    /\ trace' = IF onErrorKind # "nil" THEN Append(trace, OnErrorEvent(err)) ELSE trace
    /\ cancelled' = IF onErrorKind = "cancel" THEN TRUE ELSE cancelled
    /\ pc' = IF onErrorKind = "panic" THEN "panicked"
             ELSE IF NeedSleep(numberOfRetries) THEN "sleep" ELSE "loop"
    /\ UNCHANGED <<args, numberOfRetries, p, err>>

\* line 50: time.Sleep(p)
Sleep ==
    /\ pc = "sleep"
    /\ trace' = Append(trace, SleepEvent(p))
    /\ pc' = "loop"
    /\ UNCHANGED <<args, numberOfRetries, p, err, cancelled>>

Next == Enter \/ LoopEnter \/ LoopExit \/ Attempt \/ HandleError \/ Sleep

Spec == Init /\ [][Next]_vars

\* Retry runs on: every call it makes returns and every sleep ends, so a
\* step that can be taken is taken
FairSpec == Spec /\ WF_vars(Next)

TypeOK ==
    /\ pc \in {"entry", "loop", "try", "onerr", "sleep", "done", "panicked"}
    /\ attempts \in -2 .. MaxAttempts
    /\ numberOfRetries \in -2 .. MaxAttempts
    /\ p \in Int
    /\ cancelled \in BOOLEAN

\* ---------------------------------------------------------------- properties
\* onError is set
OnErrorSet == onErrorKind # "nil"
\* onError returns when called (it is expected not to panic)
OnErrorReturns == onErrorKind # "panic"

\* an invocation of f failed: it returned an error or it panicked
OpFailed(o) == o.how = "panic" \/ o.ret # NilErr
\* it failed by returning an error
OpReturnedError(o) == o.how = "return" /\ o.ret # NilErr

AllReturnedErrors == \A i \in 1 .. Len(Calls) : OpReturnedError(Calls[i].out)
AllPanicked == \A i \in 1 .. Len(Calls) : Calls[i].out.how = "panic"
AllFailed == \A i \in 1 .. Len(Calls) : OpFailed(Calls[i].out)

\* C1: with attempts = N > 0 and an f that returns an error on every
\* invocation, f is never invoked more than N times, the i-th onError call
\* receives the error of the i-th invocation, the loop exits once N
\* invocations are made, and when Retry has returned f was invoked exactly
\* N times and onError (when set) exactly N times.
C1_AlwaysErrorExactlyN ==
    (attempts > 0 /\ OnErrorReturns /\ AllReturnedErrors) =>
        /\ Len(Calls) <= attempts
        /\ Len(OnErrors) <= Len(Calls)
        /\ \A i \in 1 .. Len(OnErrors) : OnErrors[i].err = Calls[i].out.ret
        /\ (pc = "loop" /\ Len(Calls) = attempts) => ~LoopCond(numberOfRetries)
        /\ pc = "done" =>
              /\ Len(Calls) = attempts
              /\ OnErrorSet => Len(OnErrors) = attempts
              /\ ~OnErrorSet => Len(OnErrors) = 0

C1_Witness ==
    /\ pc = "done" /\ attempts = 3 /\ onErrorKind = "count"
    /\ AllReturnedErrors /\ Len(Calls) = 3 /\ Len(OnErrors) = 3
    /\ OnErrors[1].err # OnErrors[2].err

\* f succeeds on its first invocation
FirstSucceeds ==
    \/ fKind = "alwaysNil"
    \/ Len(Calls) >= 1 /\ ~OpFailed(Calls[1].out)

\* what C2 promises once Retry has returned
OnceNoCallbackNoSleep ==
    Len(Calls) = 1 /\ Len(OnErrors) = 0 /\ Len(Sleeps) = 0

\* C2 as stated: for an f that succeeds on its first invocation and any
\* value of attempts (zero included), Retry invokes f exactly once, never
\* calls onError, never sleeps, and returns.
C2_AsStated ==
    (FirstSucceeds /\ pc = "done") => OnceNoCallbackNoSleep

\* C2 amended: for an f that succeeds on its first invocation and any
\* nonzero value of attempts (positive or negative), Retry invokes f exactly
\* once, never calls onError, never sleeps, and returns right after that
\* invocation.
C2_FirstSuccessNonzero ==
    (FirstSucceeds /\ attempts # 0) =>
        /\ Len(Calls) <= 1
        /\ Len(OnErrors) = 0
        /\ Len(Sleeps) = 0
        /\ Len(Calls) = 1 => pc = "done"
        /\ pc = "done" => OnceNoCallbackNoSleep

C2_Witness ==
    /\ pc = "done" /\ attempts < 0 /\ fKind = "alwaysNil" /\ onErrorKind = "count"
    /\ trace = <<CallEvent(Return(NilErr, TRUE), NilErr)>>

\* C3: with attempts = 0, f and onError are never invoked, Retry never
\* sleeps, and it goes from the loop test straight to its return, whatever
\* f would have done.
C3_ZeroAttempts ==
    attempts = 0 => trace = << >> /\ pc \in {"entry", "loop", "done"}

C3_Witness ==
    pc = "done" /\ attempts = 0 /\ fKind = "any" /\ onErrorKind = "count"

\* C4 as stated: a panic of f with payload v is caught and becomes a failure
\* value whose CausedBy() is v, that value is what onError receives, and
\* with attempts = N > 0 and an f that panics on every invocation f is
\* invoked exactly N times and onError exactly N times.
C4_AsStated ==
    /\ \A i \in 1 .. Len(trace) :
          (IsCall(trace[i]) /\ trace[i].out.how = "panic") =>
              /\ trace[i].err.kind = "recovered"
              /\ CausedBy(trace[i].err) = trace[i].out.pv
              /\ (OnErrorSet /\ i < Len(trace)) => trace[i + 1] = OnErrorEvent(trace[i].err)
    /\ (attempts > 0 /\ OnErrorSet /\ OnErrorReturns /\ AllPanicked /\ pc = "done") =>
          Len(Calls) = attempts /\ Len(OnErrors) = attempts

\* C5 as stated: for every payload, nil included, Try returns a non-nil
\* failure value when f panics, and no panic of f leaves Try or Retry.
C5_AsStated ==
    /\ \A i \in 1 .. Len(Calls) :
          Calls[i].out.how = "panic" => Calls[i].err # NilErr
    /\ pc = "panicked" => onErrorKind = "panic"

\* the last thing Retry did was to invoke f
LastIsCall == Len(trace) > 0 /\ IsCall(trace[Len(trace)])

\* C6 as stated: every sleep comes right after the onError call of a failed
\* attempt (after the attempt itself when no callback is set) and right
\* before the next invocation, Retry never returns right after a sleep, and
\* with attempts = N > 0 and an f that fails on every invocation there are
\* exactly N-1 sleeps.
C6_AsStated ==
    /\ \A i \in 1 .. Len(trace) :
          IsSleep(trace[i]) =>
              /\ i > 1
              /\ IF OnErrorSet THEN IsOnError(trace[i - 1]) ELSE IsCall(trace[i - 1])
              /\ i < Len(trace) => IsCall(trace[i + 1])
              /\ i = Len(trace) => pc \in {"loop", "try"}
    /\ (OnErrorReturns /\ pc = "done" /\ Len(Calls) > 0) => Len(Sleeps) = Len(Calls) - 1
    /\ (attempts > 0 /\ OnErrorReturns /\ AllFailed /\ pc = "done") =>
          Len(Sleeps) = attempts - 1

\* the sleep duration the documentation of Retry promises
PromisedPeriod ==
    CASE period = << >> -> 5000
      [] period # << >> /\ Head(period) <= 0 -> 5000
      [] OTHER -> Head(period)

\* C7: the sleep duration is fixed before the first attempt and never
\* changes; every sleep lasts the first period argument when it is given
\* and positive, and 5 seconds otherwise; later period arguments are ignored.
C7_FixedPeriod ==
    /\ pc # "entry" => p = PromisedPeriod
    /\ pc = "entry" => trace = << >>
    /\ \A i \in 1 .. Len(Sleeps) : Sleeps[i].d = PromisedPeriod

C7_Witness ==
    /\ Len(Sleeps) = 2 /\ period = <<50, 70>>
    /\ Sleeps[1].d = 50 /\ Sleeps[2].d = 50

\* C8 as stated: with attempts < 0, after every failed attempt Retry calls
\* onError (when set), sleeps for the period and attempts again, and it
\* returns only right after the first invocation that succeeds, never after
\* a failed attempt.
C8_AsStated ==
    (attempts < 0 /\ OnErrorReturns) =>
        /\ numberOfRetries = attempts
        /\ \A i \in 1 .. Len(Calls) - 1 : OpFailed(Calls[i].out)
        /\ pc = "done" => (LastIsCall /\ ~OpFailed(Calls[Len(Calls)].out))
        /\ \A i \in 1 .. Len(trace) :
              (IsSleep(trace[i]) => trace[i].d = p)
        /\ \A i \in 1 .. Len(Calls) - 1 :
              Len(Sleeps) >= i /\ (OnErrorSet => Len(OnErrors) >= i)

\* C9 as stated: with attempts = N # 0 Retry does not stop before the first
\* success of f unless N invocations are used up, and when the first
\* success is the k-th invocation f was invoked k times, onError k-1 times,
\* Retry slept k-1 times, and nothing follows the successful invocation.
C9_AsStated ==
    (attempts # 0 /\ OnErrorReturns /\ pc = "done") =>
        LET k == Len(Calls) IN
        /\ k >= 1
        /\ \A i \in 1 .. k - 1 : OpFailed(Calls[i].out)
        /\ OpFailed(Calls[k].out) => (attempts > 0 /\ k = attempts)
        /\ ~OpFailed(Calls[k].out) =>
              /\ LastIsCall
              /\ Len(Sleeps) = k - 1
              /\ OnErrorSet => Len(OnErrors) = k - 1

\* the invocations in which f did its work
Worked(x) == IsCall(x) /\ x.out.worked
WorkDone == Len(SelectSeq(trace, Worked))

\* C10 as stated: f returns nil when the context is cancelled and otherwise
\* does its work and fails or panics, onError cancels the context; with
\* attempts = 3 the work is done exactly once, onError is called exactly
\* once, the second invocation succeeds, and Retry returns with attempts
\* remaining and no sleep after the successful invocation.
C10_AsStated ==
    (fKind = "ctxAware" /\ onErrorKind = "cancel" /\ attempts = 3 /\ pc = "done") =>
        /\ WorkDone = 1
        /\ Len(OnErrors) = 1
        /\ Len(Calls) = 2
        /\ Calls[2].out = Return(NilErr, FALSE)
        /\ Len(Sleeps) = 1
        /\ LastIsCall
        /\ numberOfRetries = 1

\* C11: when f returns without panicking, Try returns exactly what f
\* returned: the same error value, not wrapped, or nil; each Try is one
\* invocation of f.
C11_ReturnPassedThrough ==
    /\ \A i \in 1 .. Len(Calls) :
          Calls[i].out.how = "return" => Calls[i].err = Calls[i].out.ret
    /\ pc \in {"onerr", "sleep"} => (Len(Calls) > 0 /\ err = Calls[Len(Calls)].err)

C11_Witness ==
    /\ Len(Calls) = 2
    /\ Calls[1].out = Return(ErrorValue("FAILED"), TRUE) /\ Calls[1].err = ErrorValue("FAILED")
    /\ Calls[2].out = Return(NilErr, TRUE) /\ Calls[2].err = NilErr

\* the text of (r *recovered) Error()
RecoveredMessage == "RECOVERED, UNKNOWN ERROR; CALL CausedBy() interface{}"

\* the failure values Try has produced for panics of f
RecoveredCalls == {i \in 1 .. Len(Calls) : Calls[i].err.kind = "recovered"}

C13_AsStated ==
    \A i \in 1 .. Len(OnErrors) :
        CausedBy(OnErrors[i].err) = [t |-> "error", s |-> "FAILED"] =>
            ErrorText(OnErrors[i].err) = "FAILED"

\* the state of the specified state machine that a position in Retry stands
\* for: Pending until the first attempt starts, Sleeping from the sleep until
\* the next attempt starts, Attempting from the start of an attempt until
\* Retry sleeps or returns, Done when Retry has returned
State ==
    CASE pc = "entry" -> "Pending"
      [] pc = "loop" /\ trace = << >> -> "Pending"
      [] pc = "loop" /\ trace # << >> /\ IsSleep(trace[Len(trace)]) -> "Sleeping"
      [] pc = "loop" /\ trace # << >> /\ ~IsSleep(trace[Len(trace)]) -> "Attempting"
      [] pc \in {"try", "onerr"} -> "Attempting"
      [] pc = "sleep" -> "Sleeping"
      [] pc = "done" -> "Done"
      [] pc = "panicked" -> "Panicked"

\* the transitions the specification lists, with their conditions; success
\* and failure are the result of Try
ListedTransition ==
    \/ State = "Pending" /\ State' = "Attempting"
    \/ State = "Attempting" /\ State' = "Done" /\ pc = "try" /\ ~IsFailure(err')
    \/ State = "Attempting" /\ State' = "Done" /\ pc = "loop"
          /\ IsFailure(err) /\ numberOfRetries = 0
    \/ State = "Attempting" /\ State' = "Sleeping"
          /\ IsFailure(err) /\ numberOfRetries # 0
    \/ State = "Sleeping" /\ State' = "Attempting"

C15_Sequential ==
    \A i \in 1 .. Len(trace) :
        /\ IsOnError(trace[i]) =>
              /\ i > 1 /\ IsCall(trace[i - 1])
              /\ trace[i - 1].err # NilErr /\ trace[i].err = trace[i - 1].err
              /\ i < Len(trace) => (IsSleep(trace[i + 1]) \/ IsCall(trace[i + 1]))
        /\ (IsCall(trace[i]) /\ i < Len(trace)) =>
              /\ trace[i].err # NilErr
              /\ IF OnErrorSet THEN IsOnError(trace[i + 1])
                 ELSE IsSleep(trace[i + 1]) \/ IsCall(trace[i + 1])
        /\ (IsSleep(trace[i]) /\ i < Len(trace)) => IsCall(trace[i + 1])
        /\ (IsSleep(trace[i]) /\ OnErrorSet) => (i > 1 /\ IsOnError(trace[i - 1]))

C15_Witness ==
    /\ Len(trace) = 6 /\ attempts = 3
    /\ IsCall(trace[1]) /\ IsOnError(trace[2]) /\ IsSleep(trace[3])
    /\ IsCall(trace[4]) /\ IsOnError(trace[5]) /\ IsSleep(trace[6])

\* the invocations of f that failed: f returned an error or panicked
FailedCall(x) == IsCall(x) /\ OpFailed(x.out)
FailedAttempts == Len(SelectSeq(trace, FailedCall))

\* C16 as stated: with onError set (and returning), whenever an attempt is
\* about to start or Retry has returned, onError has been called once for
\* every failed attempt, whether f returned an error or panicked.
C16_AsStated ==
    (OnErrorSet /\ OnErrorReturns /\ pc \in {"loop", "try", "done"}) =>
        Len(OnErrors) = FailedAttempts

\* C17: with attempts = N >= 0 and an onError that returns, f is never
\* invoked more than N times and Retry eventually returns.
C17_Terminates ==
    /\ [](attempts >= 0 => Len(Calls) <= attempts)
    /\ (attempts >= 0 /\ OnErrorReturns) ~> (pc = "done")

C17_Witness ==
    /\ pc = "done" /\ attempts = 3 /\ Len(Calls) = 3 /\ AllFailed
    /\ onErrorKind = "cancel" /\ fKind = "any"

\* the attempts started so far: the invocations of f made, and the one that
\* is about to be made once the counter is decremented
Started == Len(Calls) + (IF pc = "try" THEN 1 ELSE 0)

\* C18: called with attempts = N > 0, the counter stays in 0..N and
\* attempts started + counter = N (so it goes down by exactly 1 at the start
\* of each attempt); called with N < 0, the counter stays equal to N.
C18_Counter ==
    /\ attempts > 0 =>
          /\ numberOfRetries \in 0 .. attempts
          /\ Started + numberOfRetries = attempts
    /\ attempts < 0 => numberOfRetries = attempts
    /\ attempts = 0 => numberOfRetries = 0

C18_Witness ==
    /\ attempts = 3 /\ numberOfRetries = 1 /\ pc = "try" /\ Len(Calls) = 1

\* C19: a panic of onError is not caught: Retry does not return but is left
\* by the panic, and nothing follows the onError call that panicked: no
\* invocation of f, no onError call, no sleep; only a panic of f is caught.
C19_CallbackPanicPropagates ==
    /\ pc = "panicked" =>
          /\ onErrorKind = "panic"
          /\ ~ENABLED Next
    /\ (onErrorKind = "panic" /\ Len(OnErrors) > 0) =>
          /\ pc = "panicked"
          /\ Len(OnErrors) = 1 /\ Len(Calls) = 1 /\ Len(Sleeps) = 0
          /\ IsOnError(trace[Len(trace)])
    /\ (onErrorKind = "panic" /\ pc = "done") => ~IsFailure(err)

C19_Witness ==
    /\ pc = "panicked" /\ attempts = 3 /\ numberOfRetries = 2
    /\ Len(trace) = 2 /\ trace[1].out.how = "panic" /\ trace[1].err.kind = "recovered"

====
